---------------------------- MODULE Spec2Model ----------------------------
(***************************************************************************)
(* Course registration (src/app.py): the Course / Student /                *)
(* RegistrationSystem object graph, the session, and the request handlers  *)
(* that drive them.                                                        *)
(*                                                                         *)
(* Course and Student define no __eq__, so `x in list` and list.remove     *)
(* compare object identities.  Objects therefore live in two heaps         *)
(* (courseObj, studentObj), a reference is an index into its heap, and     *)
(* the registry dicts map an id to a reference.                            *)
(***************************************************************************)
EXTENDS Integers, Sequences, FiniteSets, TLC

VARIABLES
    courses,      \* RegistrationSystem.courses : course_id -> Course reference
    students,     \* RegistrationSystem.students: student_id -> Student reference
    courseObj,    \* heap of Course objects, in allocation order
    studentObj,   \* heap of Student objects, in allocation order
    session,      \* the client's session: user, role, student_id (None = key absent)
    last,         \* the last request: the operation, how it ended, and whether
                  \* it ended in an exception nothing caught
    calls         \* enroll calls in flight, one per server thread: the statement
                  \* each is at, its arguments, its local references, its outcome

vars == <<courses, students, courseObj, studentObj, session, last, calls>>
registry == <<courses, students, courseObj, studentObj>>

-----------------------------------------------------------------------------
(* Bounds of the model *)

\* Course and Student objects constructed by requests, after the seed objects.
MaxCreated == 1

\* Python's None: the value of session.get(k) / dict.get(k) for an absent key.
None == "<None>"

-----------------------------------------------------------------------------
(* Request inputs *)

\* course_id form field / argument: empty, a seed course, an id that is not seeded.
CourseIdInputs == {"", "CMSC495", "CMSC999"}
\* student_id form field / argument: empty, a seed student, an id that is not seeded.
StudentIdInputs == {"", "S001", "S003"}
\* title and name form fields.
TitleInputs == {"", "Title"}
NameInputs == {"", "Name"}
\* capacity form field: absent, or present with a text (a sequence of characters).
CapacityInputs ==
    { [present |-> FALSE, text |-> <<>>],
      [present |-> TRUE,  text |-> <<"x">>],
      [present |-> TRUE,  text |-> <<"-", "1">>],
      [present |-> TRUE,  text |-> <<"1">>],
      [present |-> TRUE,  text |-> <<"2">>] }
UsernameInputs == {"alice", "Alice", "admin", "bob"}
PasswordInputs == {"Password1!", "wrong"}

-----------------------------------------------------------------------------
(* Sequence helpers: Python list membership and list.remove *)

InList(x, s) == \E i \in 1..Len(s) : s[i] = x

FirstIndex(x, s) == CHOOSE i \in 1..Len(s) : s[i] = x /\ \A j \in 1..(i-1) : s[j] # x

\* list.remove(x): deletes the first occurrence of x (x is known to be in s).
ListRemove(s, x) ==
    LET k == FirstIndex(x, s)
    IN  [i \in 1..(Len(s)-1) |-> IF i < k THEN s[i] ELSE s[i+1]]

-----------------------------------------------------------------------------
(* int(text) and request.form.get *)

DigitChars == {"0", "1", "2", "3", "4", "5", "6", "7", "8", "9"}

DigitVal(c) ==
    CASE c = "0" -> 0 [] c = "1" -> 1 [] c = "2" -> 2 [] c = "3" -> 3 [] c = "4" -> 4
      [] c = "5" -> 5 [] c = "6" -> 6 [] c = "7" -> 7 [] c = "8" -> 8 [] c = "9" -> 9

Signed(t) == Len(t) > 0 /\ t[1] \in {"-", "+"}
Magnitude(t) == IF Signed(t) THEN Tail(t) ELSE t

\* int(t) raises ValueError unless t is a literal.  Of the literals int accepts,
\* the model covers an optional sign followed by ASCII digits (no surrounding
\* whitespace, no underscores), which is all CapacityInputs contains.
IsIntLiteral(t) ==
    /\ Len(Magnitude(t)) > 0
    /\ \A i \in 1..Len(Magnitude(t)) : Magnitude(t)[i] \in DigitChars

RECURSIVE DigitsValue(_)
DigitsValue(d) ==
    IF Len(d) = 0 THEN 0
    ELSE 10 * DigitsValue(SubSeq(d, 1, Len(d) - 1)) + DigitVal(d[Len(d)])

IntValue(t) ==
    IF Signed(t) /\ t[1] = "-" THEN 0 - DigitsValue(Magnitude(t)) ELSE DigitsValue(Magnitude(t))

\* request.form.get("capacity", "0")
FormGetCapacity(f) == IF f.present THEN f.text ELSE <<"0">>

-----------------------------------------------------------------------------
(* Course *)

NewCourse(course_id, title, capacity) ==
    [course_id |-> course_id, title |-> title, capacity |-> capacity,
     enrolled_students |-> <<>>]

\* has_seat with <= for <: a seat is offered to a course that is already full.
has_seat_OffByOne(cref) ==
    Len(courseObj[cref].enrolled_students) <= courseObj[cref].capacity

has_seat(cref) == Len(courseObj[cref].enrolled_students) < courseObj[cref].capacity

\* register_student without its duplicate check.
register_student_NoDuplicateCheck(cref, sref) ==
    IF ~has_seat(cref)
    THEN [exc |-> "CapacityFullError", courseObj |-> courseObj]
    ELSE [exc |-> "none",
          courseObj |-> [courseObj EXCEPT ![cref].enrolled_students = Append(@, sref)]]

\* register_student with the capacity check ahead of the duplicate check.
register_student_CapacityFirst(cref, sref) ==
    IF ~has_seat(cref)
    THEN [exc |-> "CapacityFullError", courseObj |-> courseObj]
    ELSE IF InList(sref, courseObj[cref].enrolled_students)
    THEN [exc |-> "DuplicateEnrollError", courseObj |-> courseObj]
    ELSE [exc |-> "none",
          courseObj |-> [courseObj EXCEPT ![cref].enrolled_students = Append(@, sref)]]

\* register_student that appends first and checks the capacity afterwards.
register_student_AppendsBeforeCheck(cref, sref) ==
    LET appended == [courseObj EXCEPT ![cref].enrolled_students = Append(@, sref)]
    IN  IF InList(sref, courseObj[cref].enrolled_students)
        THEN [exc |-> "DuplicateEnrollError", courseObj |-> courseObj]
        ELSE IF Len(appended[cref].enrolled_students) > courseObj[cref].capacity
        THEN [exc |-> "CapacityFullError", courseObj |-> appended]
        ELSE [exc |-> "none", courseObj |-> appended]

\* Result: the exception raised ("none" when it returns True) and the Course heap
\* as the call leaves it.
register_student(cref, sref) ==
    IF InList(sref, courseObj[cref].enrolled_students)
    THEN [exc |-> "DuplicateEnrollError", courseObj |-> courseObj]
    ELSE IF ~has_seat(cref)
    THEN [exc |-> "CapacityFullError", courseObj |-> courseObj]
    ELSE [exc |-> "none",
          courseObj |-> [courseObj EXCEPT ![cref].enrolled_students = Append(@, sref)]]

\* drop_student that reports success without removing the student.
drop_student_KeepsEntry(cref, sref) ==
    IF ~InList(sref, courseObj[cref].enrolled_students)
    THEN [exc |-> "NotEnrolledError", courseObj |-> courseObj]
    ELSE [exc |-> "none", courseObj |-> courseObj]

drop_student(cref, sref) ==
    IF ~InList(sref, courseObj[cref].enrolled_students)
    THEN [exc |-> "NotEnrolledError", courseObj |-> courseObj]
    ELSE [exc |-> "none",
          courseObj |-> [courseObj EXCEPT
                           ![cref].enrolled_students = ListRemove(@, sref)]]

-----------------------------------------------------------------------------
(* Student *)

NewStudent(student_id, name) ==
    [student_id |-> student_id, name |-> name, registered_courses |-> <<>>]

register_for_course(sref, cref) ==
    LET r == register_student(cref, sref)
    IN  IF r.exc # "none"
        THEN [exc |-> r.exc, courseObj |-> r.courseObj, studentObj |-> studentObj]
        ELSE [exc |-> "none", courseObj |-> r.courseObj,
              studentObj |->
                 IF ~InList(cref, studentObj[sref].registered_courses)
                 THEN [studentObj EXCEPT ![sref].registered_courses = Append(@, cref)]
                 ELSE studentObj]

\* drop_course that leaves the course in the student's registered_courses.
drop_course_LeavesStudentList(sref, cref) ==
    LET r == drop_student(cref, sref)
    IN  [exc |-> r.exc, courseObj |-> r.courseObj, studentObj |-> studentObj]

drop_course(sref, cref) ==
    LET r == drop_student(cref, sref)
    IN  IF r.exc # "none"
        THEN [exc |-> r.exc, courseObj |-> r.courseObj, studentObj |-> studentObj]
        ELSE [exc |-> "none", courseObj |-> r.courseObj,
              studentObj |->
                 IF InList(cref, studentObj[sref].registered_courses)
                 THEN [studentObj EXCEPT
                          ![sref].registered_courses = ListRemove(@, cref)]
                 ELSE studentObj]

-----------------------------------------------------------------------------
(* RegistrationSystem *)

\* self.courses[course.course_id] = course, for a freshly constructed Course.
add_course(course) ==
    LET ref == Len(courseObj) + 1
    IN  [courseObj |-> Append(courseObj, course),
         courses |-> [id \in DOMAIN courses \cup {course.course_id} |->
                         IF id = course.course_id THEN ref ELSE courses[id]]]

add_student(student) ==
    LET ref == Len(studentObj) + 1
    IN  [studentObj |-> Append(studentObj, student),
         students |-> [id \in DOMAIN students \cup {student.student_id} |->
                          IF id = student.student_id THEN ref ELSE students[id]]]

get_course(course_id) ==
    IF course_id \notin DOMAIN courses
    THEN [exc |-> "NotFoundError", ref |-> 0]
    ELSE [exc |-> "none", ref |-> courses[course_id]]

get_student(student_id) ==
    IF student_id \notin DOMAIN students
    THEN [exc |-> "NotFoundError", ref |-> 0]
    ELSE [exc |-> "none", ref |-> students[student_id]]

Raised(e) == [exc |-> e, courseObj |-> courseObj, studentObj |-> studentObj]

\* get_student is evaluated before get_course (receiver before arguments).
\* enroll that looks up Bob whatever student id it is given.
enroll_WrongStudent(student_id, course_id) ==
    LET s == get_student("S002")
        c == get_course(course_id)
    IN  IF s.exc # "none" THEN Raised(s.exc)
        ELSE IF c.exc # "none" THEN Raised(c.exc)
        ELSE register_for_course(s.ref, c.ref)

enroll(student_id, course_id) ==
    LET s == get_student(student_id)
        c == get_course(course_id)
    IN  IF s.exc # "none" THEN Raised(s.exc)
        ELSE IF c.exc # "none" THEN Raised(c.exc)
        ELSE register_for_course(s.ref, c.ref)

drop(student_id, course_id) ==
    LET s == get_student(student_id)
        c == get_course(course_id)
    IN  IF s.exc # "none" THEN Raised(s.exc)
        ELSE IF c.exc # "none" THEN Raised(c.exc)
        ELSE drop_course(s.ref, c.ref)

-----------------------------------------------------------------------------
(* Module-level setup: seed data, USERS, the empty session *)

SeedCourses ==
    << NewCourse("CMSC101", "Intro to Computer Science", 3),
       NewCourse("CMSC220", "Data Structures", 2),
       NewCourse("CMSC330", "Advanced Programming", 2),
       NewCourse("CMSC495", "Capstone Project", 1) >>

SeedStudents == << NewStudent("S001", "Alice"), NewStudent("S002", "Bob") >>

\* generate_password_hash / check_password_hash: a hash checks against exactly
\* the password it was generated from.
generate_password_hash(p) == <<"pbkdf2", p>>
check_password_hash(h, p) == h = generate_password_hash(p)

USERS ==
    [u \in {"alice", "admin"} |->
        IF u = "alice"
        THEN [pw |-> generate_password_hash("Password1!"), role |-> "student",
              student_id |-> "S001"]
        ELSE [pw |-> generate_password_hash("Password1!"), role |-> "admin",
              student_id |-> None]]

\* Objects in the two heaps beyond the seed objects.
Created(cObjs, sObjs) == Len(cObjs) + Len(sObjs) - Len(SeedCourses) - Len(SeedStudents)

EmptySession == [user |-> None, role |-> None, student_id |-> None]

NoRequest == [op |-> "none", result |-> "none", unhandled |-> FALSE]

\* The development server handles each request in a thread of its own; two
\* threads are enough for a race.
Threads == {"T1", "T2"}

\* A thread that is handling no enroll call.
Idle == [pc |-> "idle", sid |-> None, cid |-> None, sref |-> 0, cref |-> 0,
         result |-> "none"]
NoCalls == [t \in Threads |-> Idle]

Init ==
    /\ courseObj = SeedCourses
    /\ studentObj = SeedStudents
    /\ courses = [id \in {SeedCourses[i].course_id : i \in 1..Len(SeedCourses)} |->
                    CHOOSE i \in 1..Len(SeedCourses) : SeedCourses[i].course_id = id]
    /\ students = [id \in {SeedStudents[i].student_id : i \in 1..Len(SeedStudents)} |->
                    CHOOSE i \in 1..Len(SeedStudents) : SeedStudents[i].student_id = id]
    /\ session = EmptySession
    /\ last = NoRequest
    /\ calls = NoCalls


\* Shape of the state: references point into the heaps, lists hold references.
TypeOK ==
    /\ \A r \in DOMAIN courseObj :
          /\ courseObj[r].capacity \in Int
          /\ \A i \in 1..Len(courseObj[r].enrolled_students) :
                courseObj[r].enrolled_students[i] \in DOMAIN studentObj
    /\ \A r \in DOMAIN studentObj :
          \A i \in 1..Len(studentObj[r].registered_courses) :
             studentObj[r].registered_courses[i] \in DOMAIN courseObj
    /\ \A cid \in DOMAIN courses :
          courses[cid] \in DOMAIN courseObj /\ courseObj[courses[cid]].course_id = cid
    /\ \A sid \in DOMAIN students :
          students[sid] \in DOMAIN studentObj /\ studentObj[students[sid]].student_id = sid
    /\ session.user \in {None} \cup DOMAIN USERS
    /\ session.role \in {None, "student", "admin"}
    /\ session.student_id \in {None, "S001"}
    /\ last.unhandled \in BOOLEAN

-----------------------------------------------------------------------------
(* Auth helpers *)

\* Python truthiness of a session / form value.
Truthy(v) == v \notin {None, ""}

\* str.lower() on the usernames the model submits.
Lower(u) == IF u = "Alice" THEN "alice" ELSE u

\* @login_required is the outer decorator, @role_required(role) the inner one.
\* "pass" when the view function runs, otherwise the refusal.
login_required == IF ~Truthy(session.user) THEN "login_required" ELSE "pass"

\* role_required that lets every role through.
role_required_AnyRole(role) == "pass"

role_required(role) == IF session.role # role THEN "not_authorized" ELSE "pass"

Gate(role) == IF login_required # "pass" THEN login_required ELSE role_required(role)

Request(op) == [op |-> op, result |-> "none", unhandled |-> FALSE]

\* A request refused by a decorator: a flash and a redirect, nothing else.
Refused(req, why) ==
    /\ last' = [req EXCEPT !.result = why]
    /\ UNCHANGED <<courses, students, courseObj, studentObj, session, calls>>

-----------------------------------------------------------------------------
(* Routes *)

Login(username_in, password) ==
    LET username == Lower(username_in)
        known == username \in DOMAIN USERS
        req == Request("login")
    IN  IF ~known \/ ~check_password_hash(USERS[username].pw, password)
        THEN /\ last' = [req EXCEPT !.result = "invalid_credentials"]
             /\ UNCHANGED <<courses, students, courseObj, studentObj, session, calls>>
        ELSE /\ session' = [user |-> username,
                            role |-> USERS[username].role,
                            student_id |-> IF Truthy(USERS[username].student_id)
                                           THEN USERS[username].student_id
                                           ELSE session.student_id]
             /\ last' = [req EXCEPT !.result = "ok"]
             /\ UNCHANGED <<courses, students, courseObj, studentObj, calls>>

Logout ==
    /\ session' = EmptySession
    /\ last' = [Request("logout") EXCEPT !.result = "ok"]
    /\ UNCHANGED <<courses, students, courseObj, studentObj, calls>>

\* enroll_course: every exception of system.enroll is caught and flashed.
EnrollCourse(cid) ==
    LET sid == session.student_id
        req == Request("enroll_course")
        r == enroll(sid, cid)
    IN  IF Gate("student") # "pass" THEN Refused(req, Gate("student"))
        ELSE /\ courseObj' = r.courseObj
             /\ studentObj' = r.studentObj
             /\ last' = [req EXCEPT !.result = IF r.exc = "none" THEN "ok" ELSE r.exc]
             /\ UNCHANGED <<courses, students, session, calls>>

DropCourse(cid) ==
    LET sid == session.student_id
        req == Request("drop_course")
        r == drop(sid, cid)
    IN  IF Gate("student") # "pass" THEN Refused(req, Gate("student"))
        ELSE /\ courseObj' = r.courseObj
             /\ studentObj' = r.studentObj
             /\ last' = [req EXCEPT !.result = IF r.exc = "none" THEN "ok" ELSE r.exc]
             /\ UNCHANGED <<courses, students, session, calls>>

\* admin_create_course with cap < 0 for cap <= 0: a capacity of 0 is accepted.
admin_create_course_AcceptsZero(cid, title, capacity) ==
    LET text == FormGetCapacity(capacity)
        cap == IntValue(text)
        same == [result |-> "none", unhandled |-> FALSE,
                 courseObj |-> courseObj, courses |-> courses]
    IN  IF ~IsIntLiteral(text)
        THEN [same EXCEPT !.result = "ValueError", !.unhandled = TRUE]
        ELSE IF ~Truthy(cid) \/ ~Truthy(title) \/ cap < 0
        THEN [same EXCEPT !.result = "invalid_input"]
        ELSE LET a == add_course(NewCourse(cid, title, cap))
             IN  [result |-> "ok", unhandled |-> FALSE,
                  courseObj |-> a.courseObj, courses |-> a.courses]

\* Body of admin_create_course: int() of the capacity field is outside any try.
admin_create_course(cid, title, capacity) ==
    LET text == FormGetCapacity(capacity)
        cap == IntValue(text)
        same == [result |-> "none", unhandled |-> FALSE,
                 courseObj |-> courseObj, courses |-> courses]
    IN  IF ~IsIntLiteral(text)
        THEN [same EXCEPT !.result = "ValueError", !.unhandled = TRUE]
        ELSE IF ~Truthy(cid) \/ ~Truthy(title) \/ cap <= 0
        THEN [same EXCEPT !.result = "invalid_input"]
        ELSE LET a == add_course(NewCourse(cid, title, cap))
             IN  [result |-> "ok", unhandled |-> FALSE,
                  courseObj |-> a.courseObj, courses |-> a.courses]

AdminCreateCourse(cid, title, capacity) ==
    LET req == Request("admin_create_course")
        r == admin_create_course(cid, title, capacity)
    IN  IF Gate("admin") # "pass" THEN Refused(req, Gate("admin"))
        ELSE /\ Created(r.courseObj, studentObj) <= MaxCreated
             /\ courseObj' = r.courseObj
             /\ courses' = r.courses
             /\ last' = [req EXCEPT !.result = r.result, !.unhandled = r.unhandled]
             /\ UNCHANGED <<students, studentObj, session, calls>>

admin_create_student(sid, name) ==
    IF ~Truthy(sid) \/ ~Truthy(name)
    THEN [result |-> "invalid_input", studentObj |-> studentObj, students |-> students]
    ELSE LET a == add_student(NewStudent(sid, name))
         IN  [result |-> "ok", studentObj |-> a.studentObj, students |-> a.students]

AdminCreateStudent(sid, name) ==
    LET req == Request("admin_create_student")
        r == admin_create_student(sid, name)
    IN  IF Gate("admin") # "pass" THEN Refused(req, Gate("admin"))
        ELSE /\ Created(courseObj, r.studentObj) <= MaxCreated
             /\ studentObj' = r.studentObj
             /\ students' = r.students
             /\ last' = [req EXCEPT !.result = r.result]
             /\ UNCHANGED <<courses, courseObj, session, calls>>

\* admin_limits without the shrink guard.
admin_limits_NoShrinkGuard(cid, capacity) ==
    LET text == FormGetCapacity(capacity)
        new_cap == IF IsIntLiteral(text) THEN IntValue(text) ELSE 0
        c == get_course(cid)
        same == [result |-> "none", unhandled |-> FALSE, courseObj |-> courseObj]
    IN  IF ~Truthy(cid) \/ new_cap <= 0
        THEN [same EXCEPT !.result = "invalid_input"]
        ELSE IF c.exc # "none"
        THEN [same EXCEPT !.result = c.exc, !.unhandled = TRUE]
        ELSE [result |-> "ok", unhandled |-> FALSE,
              courseObj |-> [courseObj EXCEPT ![c.ref].capacity = new_cap]]

\* admin_limits with <= for < in the shrink guard: the current count is refused.
admin_limits_StrictShrinkGuard(cid, capacity) ==
    LET text == FormGetCapacity(capacity)
        new_cap == IF IsIntLiteral(text) THEN IntValue(text) ELSE 0
        c == get_course(cid)
        same == [result |-> "none", unhandled |-> FALSE, courseObj |-> courseObj]
    IN  IF ~Truthy(cid) \/ new_cap <= 0
        THEN [same EXCEPT !.result = "invalid_input"]
        ELSE IF c.exc # "none"
        THEN [same EXCEPT !.result = c.exc, !.unhandled = TRUE]
        ELSE IF new_cap <= Len(courseObj[c.ref].enrolled_students)
        THEN [same EXCEPT !.result = "below_enrollment"]
        ELSE [result |-> "ok", unhandled |-> FALSE,
              courseObj |-> [courseObj EXCEPT ![c.ref].capacity = new_cap]]

\* admin_limits with < for <= in the positivity test: a capacity of 0 is written.
admin_limits_AcceptsZero(cid, capacity) ==
    LET text == FormGetCapacity(capacity)
        new_cap == IF IsIntLiteral(text) THEN IntValue(text) ELSE 0
        c == get_course(cid)
        same == [result |-> "none", unhandled |-> FALSE, courseObj |-> courseObj]
    IN  IF ~Truthy(cid) \/ new_cap < 0
        THEN [same EXCEPT !.result = "invalid_input"]
        ELSE IF c.exc # "none"
        THEN [same EXCEPT !.result = c.exc, !.unhandled = TRUE]
        ELSE IF new_cap < Len(courseObj[c.ref].enrolled_students)
        THEN [same EXCEPT !.result = "below_enrollment"]
        ELSE [result |-> "ok", unhandled |-> FALSE,
              courseObj |-> [courseObj EXCEPT ![c.ref].capacity = new_cap]]

\* Body of admin_limits for a POST: a ValueError of int() becomes new_cap = 0;
\* system.get_course is outside any try.
admin_limits(cid, capacity) ==
    LET text == FormGetCapacity(capacity)
        new_cap == IF IsIntLiteral(text) THEN IntValue(text) ELSE 0
        c == get_course(cid)
        same == [result |-> "none", unhandled |-> FALSE, courseObj |-> courseObj]
    IN  IF ~Truthy(cid) \/ new_cap <= 0
        THEN [same EXCEPT !.result = "invalid_input"]
        ELSE IF c.exc # "none"
        THEN [same EXCEPT !.result = c.exc, !.unhandled = TRUE]
        ELSE IF new_cap < Len(courseObj[c.ref].enrolled_students)
        THEN [same EXCEPT !.result = "below_enrollment"]
        ELSE [result |-> "ok", unhandled |-> FALSE,
              courseObj |-> [courseObj EXCEPT ![c.ref].capacity = new_cap]]

AdminLimits(cid, capacity) ==
    LET req == Request("admin_limits")
        r == admin_limits(cid, capacity)
    IN  IF Gate("admin") # "pass" THEN Refused(req, Gate("admin"))
        ELSE /\ courseObj' = r.courseObj
             /\ last' = [req EXCEPT !.result = r.result, !.unhandled = r.unhandled]
             /\ UNCHANGED <<courses, students, studentObj, session, calls>>

Next ==
    \/ \E u \in UsernameInputs, p \in PasswordInputs : Login(u, p)
    \/ Logout
    \/ \E cid \in CourseIdInputs : EnrollCourse(cid)
    \/ \E cid \in CourseIdInputs : DropCourse(cid)
    \/ \E cid \in CourseIdInputs, title \in TitleInputs, capacity \in CapacityInputs :
          AdminCreateCourse(cid, title, capacity)
    \/ \E sid \in StudentIdInputs, name \in NameInputs : AdminCreateStudent(sid, name)
    \/ \E cid \in CourseIdInputs, capacity \in CapacityInputs : AdminLimits(cid, capacity)

Spec == Init /\ [][Next]_vars

-----------------------------------------------------------------------------
(* The RegistrationSystem API called directly, with any student id.  The web   *)
(* routes only ever pass session["student_id"], which USERS fixes to S001.     *)

\* student_id argument: the seed students and an id that is not registered.
StudentIdArgs == {"S001", "S002", "S003"}
\* Course(...) arguments as every call site of the constructor passes them:
\* a non-empty id and a positive capacity.
CourseIdArgs == {"CMSC495", "CMSC999"}
CapacityArgs == {1, 2}

\* system.enroll(sid, cid): the exception, if any, reaches the caller.
CallEnroll(sid, cid) ==
    LET r == enroll(sid, cid)
    IN  /\ courseObj' = r.courseObj
        /\ studentObj' = r.studentObj
        /\ last' = [Request("enroll") EXCEPT !.result = IF r.exc = "none" THEN "ok" ELSE r.exc]
        /\ UNCHANGED <<courses, students, session, calls>>

CallDrop(sid, cid) ==
    LET r == drop(sid, cid)
    IN  /\ courseObj' = r.courseObj
        /\ studentObj' = r.studentObj
        /\ last' = [Request("drop") EXCEPT !.result = IF r.exc = "none" THEN "ok" ELSE r.exc]
        /\ UNCHANGED <<courses, students, session, calls>>

\* system.add_course(Course(cid, title, cap))
CallAddCourse(cid, cap) ==
    LET a == add_course(NewCourse(cid, "Title", cap))
    IN  /\ Created(a.courseObj, studentObj) <= MaxCreated
        /\ courseObj' = a.courseObj
        /\ courses' = a.courses
        /\ last' = [Request("add_course") EXCEPT !.result = "ok"]
        /\ UNCHANGED <<students, studentObj, session, calls>>

\* system.add_student(Student(sid, name))
CallAddStudent(sid) ==
    LET a == add_student(NewStudent(sid, "Name"))
    IN  /\ Created(courseObj, a.studentObj) <= MaxCreated
        /\ studentObj' = a.studentObj
        /\ students' = a.students
        /\ last' = [Request("add_student") EXCEPT !.result = "ok"]
        /\ UNCHANGED <<courses, courseObj, session, calls>>

EngineNext ==
    \/ \E sid \in StudentIdArgs, cid \in CourseIdInputs : CallEnroll(sid, cid)
    \/ \E sid \in StudentIdArgs, cid \in CourseIdInputs : CallDrop(sid, cid)
    \/ \E cid \in CourseIdArgs, cap \in CapacityArgs : CallAddCourse(cid, cap)
    \/ \E sid \in StudentIdArgs : CallAddStudent(sid)

EngineSpec == Init /\ [][EngineNext]_vars

\* The same API on the seed courses of capacity 2 and 1, with a third student
\* to register: the arguments of the seat-release scenario.
SeatCourseIds == {"CMSC220", "CMSC495"}

SeatNext ==
    \/ \E sid \in StudentIdArgs, cid \in SeatCourseIds : CallEnroll(sid, cid)
    \/ \E sid \in StudentIdArgs, cid \in SeatCourseIds : CallDrop(sid, cid)
    \/ \E sid \in StudentIdArgs : CallAddStudent(sid)

SeatSpec == Init /\ [][SeatNext]_vars

-----------------------------------------------------------------------------
(* Vocabulary of the properties.  A student or course named by an id is the  *)
(* object the registry holds under that id.                                   *)

CourseOf(cid) == courseObj[courses[cid]]
StudentOf(sid) == studentObj[students[sid]]
Known(sid, cid) == sid \in DOMAIN students /\ cid \in DOMAIN courses
Count(cid) == Len(CourseOf(cid).enrolled_students)
Elems(list) == {list[i] : i \in 1..Len(list)}

\* Student sid is enrolled in course cid: the registry's Student is in the
\* enrolled_students of the registry's Course.
Enrolled(sid, cid) ==
    Known(sid, cid) /\ InList(students[sid], CourseOf(cid).enrolled_students)

\* Ids of the entries of a list of Student / Course references.
StudentIdsAt(list) == [i \in 1..Len(list) |-> studentObj[list[i]].student_id]
CourseIdsAt(list) == [i \in 1..Len(list) |-> courseObj[list[i]].course_id]
NoRepeat(list) == \A i, j \in 1..Len(list) : i # j => list[i] # list[j]

-----------------------------------------------------------------------------
(* C1 *)

\* C1: in every state reachable from the seed data by enroll, drop, set-capacity,
\* create-course and create-student requests, every course held in the registry
\* has len(enrolled_students) <= capacity.
C1_CapacityInvariant ==
    \A cid \in DOMAIN courses : Count(cid) <= CourseOf(cid).capacity

\* An enroll request has just taken the last seat of a course.
C1_Witness ==
    /\ last.op = "enroll_course" /\ last.result = "ok"
    /\ \E cid \in DOMAIN courses : Count(cid) >= 1 /\ Count(cid) = CourseOf(cid).capacity

-----------------------------------------------------------------------------
(* C2 *)

\* C2: in every reachable state no registry course's enrolled_students holds two
\* entries with the same student_id, and no registry student's registered_courses
\* holds two entries with the same course_id.
C2_UniqueEnrollmentPairs ==
    /\ \A cid \in DOMAIN courses : NoRepeat(StudentIdsAt(CourseOf(cid).enrolled_students))
    /\ \A sid \in DOMAIN students : NoRepeat(CourseIdsAt(StudentOf(sid).registered_courses))

-----------------------------------------------------------------------------
(* C3 *)

\* C3: enroll(s, c) for an existing student s already enrolled in existing course c
\* fails with DuplicateEnrollError and leaves c's enrolled list and s's
\* registered_courses unchanged.
C3_DuplicateEnrollRejected ==
    [][\A sid \in StudentIdArgs, cid \in CourseIdInputs :
          (CallEnroll(sid, cid) /\ Enrolled(sid, cid)) =>
             /\ last'.result = "DuplicateEnrollError"
             /\ courseObj'[courses[cid]].enrolled_students = CourseOf(cid).enrolled_students
             /\ studentObj'[students[sid]].registered_courses
                   = StudentOf(sid).registered_courses]_vars

\* A second enroll of an enrolled student has just been refused, in a course that
\* still has a free seat.
C3_Witness ==
    /\ last.op = "enroll" /\ last.result = "DuplicateEnrollError"
    /\ \E sid \in DOMAIN students, cid \in DOMAIN courses :
          Enrolled(sid, cid) /\ Count(cid) < CourseOf(cid).capacity

-----------------------------------------------------------------------------
(* C4 *)

\* C4: enroll(s, c) for an existing student s not enrolled in existing course c,
\* when len(c.enrolled_students) = c.capacity, fails with CapacityFullError and
\* leaves the enrolled count and both enrollment lists unchanged.
C4_FullCourseRejected ==
    [][\A sid \in StudentIdArgs, cid \in CourseIdInputs :
          (/\ CallEnroll(sid, cid)
           /\ Known(sid, cid)
           /\ ~Enrolled(sid, cid)
           /\ Count(cid) = CourseOf(cid).capacity) =>
             /\ last'.result = "CapacityFullError"
             /\ Len(courseObj'[courses[cid]].enrolled_students) = Count(cid)
             /\ courseObj'[courses[cid]].enrolled_students = CourseOf(cid).enrolled_students
             /\ studentObj'[students[sid]].registered_courses
                   = StudentOf(sid).registered_courses]_vars

\* An enroll has just been refused for lack of a seat: the course is full and a
\* registered student is not in it.
C4_Witness ==
    /\ last.op = "enroll" /\ last.result = "CapacityFullError"
    /\ \E sid \in DOMAIN students, cid \in DOMAIN courses :
          ~Enrolled(sid, cid) /\ Count(cid) = CourseOf(cid).capacity

-----------------------------------------------------------------------------
(* C5 *)

\* C5: drop(s, c) for existing s and c: if s is enrolled in c the pair is removed
\* from both c.enrolled_students and s.registered_courses, each list loses exactly
\* that one entry and nothing else changes; if s is not enrolled in c it fails with
\* NotEnrolledError and nothing changes.
C5_DropRemovesExactlyThePair ==
    [][\A sid \in StudentIdArgs, cid \in CourseIdInputs :
          (CallDrop(sid, cid) /\ Known(sid, cid)) =>
             LET s == students[sid]
                 c == courses[cid]
             IN  IF Enrolled(sid, cid)
                 THEN /\ last'.result = "ok"
                      /\ Len(courseObj'[c].enrolled_students) = Count(cid) - 1
                      /\ Elems(courseObj'[c].enrolled_students)
                            = Elems(courseObj[c].enrolled_students) \ {s}
                      /\ Len(studentObj'[s].registered_courses)
                            = Len(studentObj[s].registered_courses) - 1
                      /\ Elems(studentObj'[s].registered_courses)
                            = Elems(studentObj[s].registered_courses) \ {c}
                      /\ courseObj'[c].capacity = courseObj[c].capacity
                      /\ \A r \in DOMAIN courseObj : r # c => courseObj'[r] = courseObj[r]
                      /\ \A r \in DOMAIN studentObj : r # s => studentObj'[r] = studentObj[r]
                      /\ courses' = courses /\ students' = students
                 ELSE /\ last'.result = "NotEnrolledError"
                      /\ registry' = registry]_vars

\* A drop has just succeeded and left another student enrolled in the same course.
C5_Witness ==
    /\ last.op = "drop" /\ last.result = "ok"
    /\ \E sid \in DOMAIN students, cid \in DOMAIN courses :
          ~Enrolled(sid, cid) /\ Count(cid) >= 1

-----------------------------------------------------------------------------
(* C6 *)

\* C6: set-capacity on an existing course with new_capacity below the current
\* enrolled count is rejected and the capacity is unchanged; with new_capacity at
\* or above the count (exactly equal included) and positive it succeeds, the
\* capacity becomes new_capacity and the enrollment lists are untouched.
C6_SetCapacityGuard ==
    [][last'.op = "admin_limits" =>
       \A cid \in CourseIdInputs, capacity \in CapacityInputs :
          (/\ Gate("admin") = "pass"
           /\ cid \in DOMAIN courses
           /\ IsIntLiteral(FormGetCapacity(capacity))
           /\ AdminLimits(cid, capacity)) =>
             LET n == IntValue(FormGetCapacity(capacity))
                 c == courses[cid]
             IN  /\ n < Count(cid) =>
                       /\ last'.result # "ok"
                       /\ courseObj'[c].capacity = courseObj[c].capacity
                 /\ (n >= Count(cid) /\ n > 0) =>
                       /\ last'.result = "ok"
                       /\ courseObj'[c].capacity = n
                       /\ \A r \in DOMAIN courseObj :
                             courseObj'[r].enrolled_students = courseObj[r].enrolled_students
                       /\ studentObj' = studentObj]_vars

\* A capacity below the current enrollment has just been refused.
C6_Witness ==
    /\ last.op = "admin_limits" /\ last.result = "below_enrollment"
    /\ \E cid \in DOMAIN courses : Count(cid) >= 2

-----------------------------------------------------------------------------
(* C7 *)

\* C7: enroll and drop check existence first (an unknown student or course yields
\* NotFoundError whatever else holds); enroll then checks the duplicate pair before
\* the capacity, so enrolling an enrolled student in a full course yields
\* DuplicateEnrollError, not CapacityFullError.
C7_ValidationOrder ==
    [][\A sid \in StudentIdArgs, cid \in CourseIdInputs :
          /\ (CallEnroll(sid, cid) /\ ~Known(sid, cid)) =>
                last'.result = "NotFoundError"
          /\ (CallDrop(sid, cid) /\ ~Known(sid, cid)) =>
                last'.result = "NotFoundError"
          /\ (/\ CallEnroll(sid, cid)
              /\ Enrolled(sid, cid)
              /\ Count(cid) = CourseOf(cid).capacity) =>
                last'.result = "DuplicateEnrollError"]_vars

\* An enrolled student's enroll in a full course has just been refused as a duplicate.
C7_Witness ==
    /\ last.op = "enroll" /\ last.result = "DuplicateEnrollError"
    /\ \A cid \in DOMAIN courses :
          Count(cid) >= 1 => Count(cid) = CourseOf(cid).capacity
    /\ \E cid \in DOMAIN courses : Count(cid) >= 1

-----------------------------------------------------------------------------
(* C8 *)

\* C8: whenever an enroll, drop, set-capacity, create-course or create-student
\* request fails, the whole registry (courses, students, every capacity and every
\* enrolled_students and registered_courses list) is as it was before the request.
C8_NoPartialMutation ==
    [][last'.result # "ok" => registry' = registry]_vars

\* An enroll that passed the decorators has just failed inside the engine, with a
\* full course in the registry.
C8_Witness ==
    /\ last.op = "enroll_course" /\ last.result = "CapacityFullError"
    /\ \E cid \in DOMAIN courses : Count(cid) = CourseOf(cid).capacity

-----------------------------------------------------------------------------
(* C9 *)

\* C9: every failure of every request handler is caught and turned into a flashed
\* notice and a redirect; no request ends in an exception nothing caught.
C9_NoUnhandledException == ~last.unhandled

-----------------------------------------------------------------------------
(* C10 *)

\* The course registered under cid lists a student with id sid, and the student
\* registered under sid lists a course with id cid.
PairListed(sid, cid) ==
    /\ Known(sid, cid)
    /\ InList(sid, StudentIdsAt(CourseOf(cid).enrolled_students))
    /\ InList(cid, CourseIdsAt(StudentOf(sid).registered_courses))

\* This step is a successful drop of (sid, cid).
SuccessfulDrop(sid, cid) ==
    DropCourse(cid) /\ session.student_id = sid /\ last'.result = "ok"

\* C10: once enroll(s, c) has succeeded, the course registered under id c keeps
\* listing s and s keeps listing c until a successful drop(s, c); no other
\* operation removes the pair, and no course or student disappears from the
\* registry or is replaced.
C10_EnrollmentLifecycle ==
    [][/\ \A sid \in DOMAIN students, cid \in DOMAIN courses :
             (PairListed(sid, cid) /\ ~SuccessfulDrop(sid, cid)) => PairListed(sid, cid)'
       /\ \A cid \in DOMAIN courses : cid \in DOMAIN courses' /\ courses'[cid] = courses[cid]
       /\ \A sid \in DOMAIN students :
             sid \in DOMAIN students' /\ students'[sid] = students[sid]]_vars

-----------------------------------------------------------------------------
(* C11 *)

\* C11: when a course is full (n = capacity students enrolled) a further, distinct
\* registered student's enroll fails with CapacityFullError; once any one enrolled
\* student has dropped, that further student's enroll succeeds and the count is
\* again n.  Stated at the drop: enroll(f, c) is what the call would return in the
\* state before, and in the state after, the drop.
C11_SeatRelease ==
    [][\A sid \in StudentIdArgs, f \in StudentIdArgs, cid \in SeatCourseIds :
          (/\ last'.op = "drop" /\ last'.result = "ok"
           /\ f # sid
           /\ Known(f, cid)
           /\ Enrolled(sid, cid)
           /\ ~Enrolled(f, cid)
           /\ Count(cid) = CourseOf(cid).capacity
           /\ CallDrop(sid, cid)) =>
             /\ enroll(f, cid).exc = "CapacityFullError"
             /\ (enroll(f, cid).exc = "none")'
             /\ (Len(enroll(f, cid).courseObj[courses[cid]].enrolled_students)
                   = CourseOf(cid).capacity)']_vars

\* Three students are registered, two of them filled the course of capacity 2, and
\* one of the two has just dropped: one seat is free again.
C11_Witness ==
    /\ last.op = "drop" /\ last.result = "ok"
    /\ {"S001", "S002", "S003"} \subseteq DOMAIN students
    /\ CourseOf("CMSC220").capacity = 2
    /\ Count("CMSC220") = 1
    /\ Cardinality({sid \in DOMAIN students : Enrolled(sid, "CMSC220")}) = 1

-----------------------------------------------------------------------------
(* C12 *)

\* C12: create-course rejects an empty course id, an empty title or a capacity <= 0
\* and leaves the registry unchanged; with valid input the registry then holds a
\* course under that id with the given capacity and no enrolled student.
\* Create-student likewise rejects an empty id or name and leaves the registry
\* unchanged.
C12_CreateValidation ==
    [][/\ (last'.op = "admin_create_course" /\ Gate("admin") = "pass") =>
          \A cid \in CourseIdInputs, title \in TitleInputs, capacity \in CapacityInputs :
             IsIntLiteral(FormGetCapacity(capacity)) =>
                LET cap == IntValue(FormGetCapacity(capacity))
                IN  \/ IF cid = "" \/ title = "" \/ cap <= 0
                       THEN last'.result = "invalid_input" /\ registry' = registry
                       ELSE /\ last'.result = "ok"
                            /\ cid \in DOMAIN courses'
                            /\ courseObj'[courses'[cid]].course_id = cid
                            /\ courseObj'[courses'[cid]].capacity = cap
                            /\ courseObj'[courses'[cid]].enrolled_students = <<>>
                    \/ ~AdminCreateCourse(cid, title, capacity)
       /\ (last'.op = "admin_create_student" /\ Gate("admin") = "pass") =>
          \A sid \in StudentIdInputs, name \in NameInputs :
             (sid = "" \/ name = "") =>
                \/ last'.result = "invalid_input" /\ registry' = registry
                \/ ~AdminCreateStudent(sid, name)]_vars

\* A course that was not seeded has just been created, with the capacity asked for
\* and nobody enrolled.
C12_Witness ==
    /\ last.op = "admin_create_course" /\ last.result = "ok"
    /\ "CMSC999" \in DOMAIN courses
    /\ CourseOf("CMSC999").capacity = 2
    /\ Count("CMSC999") = 0

-----------------------------------------------------------------------------
(* C13 *)

StudentOps == {"enroll_course", "drop_course"}
AdminOps == {"admin_create_course", "admin_create_student", "admin_limits"}

\* C13: the registry changes only in a request of a logged-in session with the
\* matching role: enroll and drop only if session.user is set and session.role is
\* 'student'; create-course, create-student and set-capacity only if session.role
\* is 'admin'.  A request without a login or with the other role leaves the
\* registry unchanged.
C13_RoleGating ==
    [][registry' # registry =>
          /\ Truthy(session.user)
          /\ \/ last'.op \in StudentOps /\ session.role = "student"
             \/ last'.op \in AdminOps /\ session.role = "admin"]_vars

\* The student has just been refused an admin request, with an enrollment of hers
\* in the registry.
C13_Witness ==
    /\ last.op \in AdminOps /\ last.result = "not_authorized"
    /\ session.role = "student"
    /\ Enrolled("S001", "CMSC495")

-----------------------------------------------------------------------------
(* The credit-cap variant of the engine.  app.py has no credit weight and no   *)
(* cap; this part follows the specification's description of the variant:     *)
(* a course carries a credit weight, and enroll checks existence, then the    *)
(* duplicate pair, then the student's total credits against the cap, then     *)
(* commits.  It shares the heaps, the registry and drop with the engine above.*)

\* The configured credit cap (the specification's scenario: cap = 9).
CreditCap == 9

NewCreditCourse(course_id, title, credits) ==
    [course_id |-> course_id, title |-> title, credits |-> credits,
     enrolled_students |-> <<>>]

\* Three 3-credit courses and one 4-credit course; two students.
CreditCourses ==
    << NewCreditCourse("CRD301", "Credits 3 a", 3),
       NewCreditCourse("CRD302", "Credits 3 b", 3),
       NewCreditCourse("CRD303", "Credits 3 c", 3),
       NewCreditCourse("CRD401", "Credits 4", 4) >>

CreditCourseArgs == {"CRD301", "CRD302", "CRD303", "CRD401", "CRD999"}

RECURSIVE SumCredits(_)
SumCredits(list) ==
    IF Len(list) = 0 THEN 0
    ELSE courseObj[list[1]].credits + SumCredits(Tail(list))

\* Sum of the credit weights of the courses a Student object is registered for.
TotalCredits(sref) == SumCredits(studentObj[sref].registered_courses)

\* The variant's enroll with the cap tested by >= : a total of exactly the cap
\* is refused.
credit_enroll_RefusesExactCap(student_id, course_id) ==
    LET s == get_student(student_id)
        c == get_course(course_id)
    IN  IF s.exc # "none" THEN Raised(s.exc)
        ELSE IF c.exc # "none" THEN Raised(c.exc)
        ELSE IF InList(s.ref, courseObj[c.ref].enrolled_students)
        THEN Raised("DuplicateEnrollError")
        ELSE IF TotalCredits(s.ref) + courseObj[c.ref].credits >= CreditCap
        THEN Raised("CreditLimitExceeded")
        ELSE [exc |-> "none",
              courseObj |-> [courseObj EXCEPT ![c.ref].enrolled_students = Append(@, s.ref)],
              studentObj |-> [studentObj EXCEPT ![s.ref].registered_courses = Append(@, c.ref)]]

\* enroll(student_id, course_id) of the variant.
credit_enroll(student_id, course_id) ==
    LET s == get_student(student_id)
        c == get_course(course_id)
    IN  IF s.exc # "none" THEN Raised(s.exc)
        ELSE IF c.exc # "none" THEN Raised(c.exc)
        ELSE IF InList(s.ref, courseObj[c.ref].enrolled_students)
        THEN Raised("DuplicateEnrollError")
        ELSE IF TotalCredits(s.ref) + courseObj[c.ref].credits > CreditCap
        THEN Raised("CreditLimitExceeded")
        ELSE [exc |-> "none",
              courseObj |-> [courseObj EXCEPT ![c.ref].enrolled_students = Append(@, s.ref)],
              studentObj |-> [studentObj EXCEPT ![s.ref].registered_courses = Append(@, c.ref)]]

CreditInit ==
    /\ courseObj = CreditCourses
    /\ studentObj = SeedStudents
    /\ courses = [id \in {CreditCourses[i].course_id : i \in 1..Len(CreditCourses)} |->
                    CHOOSE i \in 1..Len(CreditCourses) : CreditCourses[i].course_id = id]
    /\ students = [id \in {SeedStudents[i].student_id : i \in 1..Len(SeedStudents)} |->
                    CHOOSE i \in 1..Len(SeedStudents) : SeedStudents[i].student_id = id]
    /\ session = EmptySession
    /\ last = NoRequest
    /\ calls = NoCalls

CreditEnroll(sid, cid) ==
    LET r == credit_enroll(sid, cid)
    IN  /\ courseObj' = r.courseObj
        /\ studentObj' = r.studentObj
        /\ last' = [Request("enroll") EXCEPT !.result = IF r.exc = "none" THEN "ok" ELSE r.exc]
        /\ UNCHANGED <<courses, students, session, calls>>

CreditNext ==
    \/ \E sid \in StudentIdArgs, cid \in CreditCourseArgs : CreditEnroll(sid, cid)
    \/ \E sid \in StudentIdArgs, cid \in CreditCourseArgs : CallDrop(sid, cid)

CreditSpec == CreditInit /\ [][CreditNext]_vars

-----------------------------------------------------------------------------
(* C14 *)

\* C14: the sum of the credit weights of a student's enrolled courses never
\* exceeds the credit cap; an enroll that would push the total over the cap fails
\* with CreditLimitExceeded and changes nothing, while an enroll that brings the
\* total to the cap or less succeeds (cap 9, enrolled 3+3: a 4-credit course is
\* refused, a 3-credit course is accepted).
C14_CreditCap ==
    /\ [](\A sid \in DOMAIN students : TotalCredits(students[sid]) <= CreditCap)
    /\ [][last'.op = "enroll" =>
          \A sid \in StudentIdArgs, cid \in CreditCourseArgs :
             (Known(sid, cid) /\ ~Enrolled(sid, cid)) =>
                \/ IF TotalCredits(students[sid]) + CourseOf(cid).credits > CreditCap
                   THEN last'.result = "CreditLimitExceeded" /\ registry' = registry
                   ELSE /\ last'.result = "ok"
                        /\ Enrolled(sid, cid)'
                        /\ TotalCredits(students[sid])'
                              = TotalCredits(students[sid]) + CourseOf(cid).credits
                \/ ~CreditEnroll(sid, cid)]_vars

\* The scenario's refusal: S001 holds 6 credits, S002 none, and the last enroll
\* was refused for the cap (so it was S001 asking for the 4-credit course).
C14_Witness ==
    /\ last.op = "enroll" /\ last.result = "CreditLimitExceeded"
    /\ TotalCredits(students["S001"]) = 6
    /\ TotalCredits(students["S002"]) = 0
    /\ ~Enrolled("S001", "CRD401")

-----------------------------------------------------------------------------
(* C15 *)

\* C15: every course in the registry has a positive integer capacity in every
\* reachable state (seed courses, created courses, capacities written by
\* admin_limits).
C15_PositiveCapacity ==
    \A cid \in DOMAIN courses :
        /\ CourseOf(cid).capacity \in Int
        /\ CourseOf(cid).capacity >= 1

\* A course was created by the admin and a seed course's capacity has just been
\* rewritten by admin_limits.
C15_Witness ==
    /\ last.op = "admin_limits" /\ last.result = "ok"
    /\ "CMSC999" \in DOMAIN courses
    /\ CourseOf("CMSC495").capacity = 2

-----------------------------------------------------------------------------
(* C16 *)

\* The two lists agree on the objects the registry holds: the registry's Student
\* is in the registry's Course's enrolled_students exactly when that Course is in
\* the Student's registered_courses.
EnrollmentSymmetric ==
    \A sid \in DOMAIN students, cid \in DOMAIN courses :
        InList(students[sid], CourseOf(cid).enrolled_students)
            <=> InList(courses[cid], StudentOf(sid).registered_courses)

\* Every entry of a list of a registry object is the object the registry holds
\* under the entry's id.
ListsHoldRegistryObjects ==
    /\ \A cid \in DOMAIN courses :
          \A r \in Elems(CourseOf(cid).enrolled_students) :
             /\ studentObj[r].student_id \in DOMAIN students
             /\ students[studentObj[r].student_id] = r
    /\ \A sid \in DOMAIN students :
          \A r \in Elems(StudentOf(sid).registered_courses) :
             /\ courseObj[r].course_id \in DOMAIN courses
             /\ courses[courseObj[r].course_id] = r

\* C16: in every reachable state, for every student s and course c held in the
\* registry, s is in c.enrolled_students iff c is in s.registered_courses, and
\* every object in either list is the object the registry holds under that id.
C16_TwoSidedConsistency ==
    EnrollmentSymmetric /\ ListsHoldRegistryObjects

-----------------------------------------------------------------------------
(* Enroll calls interleaved at statement granularity.  No statement of        *)
(* RegistrationSystem.enroll, Student.register_for_course or                  *)
(* Course.register_student takes a lock, so a thread may be preempted         *)
(* between any two of them.                                                   *)

RaceStudentIds == {"S001", "S002"}
RaceCourseIds == {"CMSC220", "CMSC495"}

Finish(t, result) ==
    calls' = [calls EXCEPT ![t].pc = "done", ![t].result = result]

\* system.enroll(sid, cid) up to the call of course.register_student: the two
\* registry lookups.
BeginEnroll(t, sid, cid) ==
    LET s == get_student(sid)
        c == get_course(cid)
    IN  /\ calls[t].pc = "idle"
        /\ calls' = [calls EXCEPT ![t] =
                       IF s.exc # "none"
                       THEN [Idle EXCEPT !.pc = "done", !.sid = sid, !.cid = cid, !.result = s.exc]
                       ELSE IF c.exc # "none"
                       THEN [Idle EXCEPT !.pc = "done", !.sid = sid, !.cid = cid, !.result = c.exc]
                       ELSE [pc |-> "check_duplicate", sid |-> sid, cid |-> cid,
                             sref |-> s.ref, cref |-> c.ref, result |-> "none"]]
        /\ UNCHANGED <<courses, students, courseObj, studentObj, session, last>>

\* if student in self.enrolled_students: raise DuplicateEnrollError
CheckDuplicate(t) ==
    /\ calls[t].pc = "check_duplicate"
    /\ IF InList(calls[t].sref, courseObj[calls[t].cref].enrolled_students)
       THEN Finish(t, "DuplicateEnrollError")
       ELSE calls' = [calls EXCEPT ![t].pc = "check_seat"]
    /\ UNCHANGED <<courses, students, courseObj, studentObj, session, last>>

\* if not self.has_seat(): raise CapacityFullError
CheckSeat(t) ==
    /\ calls[t].pc = "check_seat"
    /\ IF ~has_seat(calls[t].cref)
       THEN Finish(t, "CapacityFullError")
       ELSE calls' = [calls EXCEPT ![t].pc = "append_student"]
    /\ UNCHANGED <<courses, students, courseObj, studentObj, session, last>>

\* self.enrolled_students.append(student); return True
AppendStudent(t) ==
    /\ calls[t].pc = "append_student"
    /\ courseObj' = [courseObj EXCEPT ![calls[t].cref].enrolled_students =
                                          Append(@, calls[t].sref)]
    /\ calls' = [calls EXCEPT ![t].pc = "check_registered"]
    /\ UNCHANGED <<courses, students, studentObj, session, last>>

\* if course not in self.registered_courses:
CheckRegistered(t) ==
    /\ calls[t].pc = "check_registered"
    /\ IF ~InList(calls[t].cref, studentObj[calls[t].sref].registered_courses)
       THEN calls' = [calls EXCEPT ![t].pc = "append_course"]
       ELSE Finish(t, "ok")
    /\ UNCHANGED <<courses, students, courseObj, studentObj, session, last>>

\* self.registered_courses.append(course); return True
AppendCourse(t) ==
    /\ calls[t].pc = "append_course"
    /\ studentObj' = [studentObj EXCEPT ![calls[t].sref].registered_courses =
                                            Append(@, calls[t].cref)]
    /\ Finish(t, "ok")
    /\ UNCHANGED <<courses, students, courseObj, session, last>>

RaceNext ==
    \/ \E t \in Threads, sid \in RaceStudentIds, cid \in RaceCourseIds : BeginEnroll(t, sid, cid)
    \/ \E t \in Threads : CheckDuplicate(t)
    \/ \E t \in Threads : CheckSeat(t)
    \/ \E t \in Threads : AppendStudent(t)
    \/ \E t \in Threads : CheckRegistered(t)
    \/ \E t \in Threads : AppendCourse(t)

RaceSpec == Init /\ [][RaceNext]_vars

\* The enroll calls on course cid that have returned successfully.
Succeeded(cid) ==
    {t \in Threads : calls[t].pc = "done" /\ calls[t].result = "ok" /\ calls[t].cid = cid}

-----------------------------------------------------------------------------
(* C17 *)

\* No course holds more students than its capacity.
WithinCapacity ==
    \A cid \in DOMAIN courses : Count(cid) <= CourseOf(cid).capacity

\* No more enroll calls on a course succeed than the course had free seats
\* (every course starts empty and nothing drops): of two calls for the last
\* seat, at most one succeeds.
AtMostOnePerSeat ==
    \A cid \in DOMAIN courses : Cardinality(Succeeded(cid)) <= CourseOf(cid).capacity

\* No list holds the same object twice.
NoDuplicateEntry ==
    /\ \A cid \in DOMAIN courses : NoRepeat(CourseOf(cid).enrolled_students)
    /\ \A sid \in DOMAIN students : NoRepeat(StudentOf(sid).registered_courses)

\* C17: when enroll calls are interleaved at statement granularity, of two calls
\* by different students for the last seat of a course at most one succeeds and
\* len(enrolled_students) <= capacity still holds, and two interleaved enrolls of
\* the same pair never produce a duplicate entry.
C17_InterleavedEnrollsSafe ==
    /\ WithinCapacity
    /\ AtMostOnePerSeat
    /\ NoDuplicateEntry

-----------------------------------------------------------------------------
(* C18 *)

\* The entries of a list of Student references that are not student sid's.
OthersIn(list, sid) == SelectSeq(list, LAMBDA r : studentObj[r].student_id # sid)

\* A step touches only the pairs of student sid: the registry dicts, every
\* course's attributes, the entries of other students in every
\* enrolled_students and every other Student object stay as they are.
OnlyPairsOf(sid) ==
    /\ courses' = courses /\ students' = students
    /\ DOMAIN courseObj' = DOMAIN courseObj
    /\ \A r \in DOMAIN courseObj :
          /\ courseObj'[r].capacity = courseObj[r].capacity
          /\ courseObj'[r].course_id = courseObj[r].course_id
          /\ OthersIn(courseObj'[r].enrolled_students, sid)
                = OthersIn(courseObj[r].enrolled_students, sid)
    /\ DOMAIN studentObj' = DOMAIN studentObj
    /\ \A r \in DOMAIN studentObj :
          studentObj[r].student_id # sid => studentObj'[r] = studentObj[r]

\* The same frame for the engine calls, where other students do hold enrollments.
EngineOnlyPairsOf ==
    [][\A sid \in StudentIdArgs, cid \in CourseIdArgs :
          (CallEnroll(sid, cid) \/ CallDrop(sid, cid)) => OnlyPairsOf(sid)]_vars

\* C18: an enroll or drop request changes only pairs whose student id is the
\* session's student_id; the enrollments of every other student and the capacity
\* of every course are unchanged by it.
C18_OwnEnrollmentsOnly ==
    [][last'.op \in StudentOps => OnlyPairsOf(session.student_id)]_vars

\* Alice has just enrolled in or dropped a course while another student, created
\* by the admin, is in the registry.
C18_Witness ==
    /\ last.op \in StudentOps /\ last.result = "ok"
    /\ session.student_id = "S001"
    /\ "S003" \in DOMAIN students

-----------------------------------------------------------------------------
(* C19 *)

\* The session a successful login of user u is to leave: u's role, and u's
\* student_id if u has one (None = the key is absent).
SessionOf(u) == [user |-> u, role |-> USERS[u].role, student_id |-> USERS[u].student_id]

\* The session is empty, or is exactly that of its user.
SessionMatchesUser ==
    IF Truthy(session.user)
    THEN session.user \in DOMAIN USERS /\ session = SessionOf(session.user)
    ELSE session = EmptySession

\* A failed login leaves the session as it was.
FailedLoginKeepsSession ==
    [][(last'.op = "login" /\ last'.result = "invalid_credentials") =>
          session' = session]_vars

\* A successful login, first or second, leaves exactly the new user's fields.
LoginReplacesSession ==
    [][(last'.op = "login" /\ last'.result = "ok") =>
          /\ session'.user \in DOMAIN USERS
          /\ session' = SessionOf(session'.user)]_vars

\* With no user in the session (initially and after logout, until a login
\* succeeds) every login-protected request is refused and changes nothing.
SignedOutRefused ==
    [][(~Truthy(session.user) /\ last'.op \in StudentOps \cup AdminOps) =>
          /\ last'.result = "login_required"
          /\ registry' = registry /\ session' = session]_vars

\* Logout empties the session.
LogoutClearsSession ==
    [][last'.op = "logout" => session' = EmptySession]_vars

\* C19: in every reachable state session.role and session.student_id are exactly
\* those of USERS[session.user]; a failed login leaves the session unchanged, a
\* second login without logout leaves no field of the previous user behind, and
\* after logout every login-protected request is refused until the next
\* successful login.
C19_SessionConsistency ==
    /\ []SessionMatchesUser
    /\ FailedLoginKeepsSession
    /\ LoginReplacesSession
    /\ LogoutClearsSession
    /\ SignedOutRefused

=============================================================================
